---- MODULE Spec2Model ----
(***************************************************************************)
(* CnStd (src/cnstd/cn_std.py): the facade in front of the text-detection   *)
(* pipeline.  CnStd.__init__ resolves the model space, builds the detector  *)
(* and, when asked, the angle classifier; CnStd.detect normalises its       *)
(* argument to a list, calls det_model.detect once, optionally sends the    *)
(* crops of every image through the angle classifier and writes the crops   *)
(* it returns back into the detected texts, and unwraps the result of a     *)
(* single image.                                                            *)
(*                                                                          *)
(* Detector/PPDetector, AVAILABLE_MODELS and AngleClassifier live outside   *)
(* cn_std.py; they are modelled by their contracts (spec.md 4.2, 4.4, 6).   *)
(***************************************************************************)
EXTENDS Integers, Sequences, FiniteSets, TLC

\* ---------------------------------------------------------------- bounds
\* Longest list of images passed to one detect call.
MaxImgs == 2
\* Largest batch_size passed to one detect call.
MaxBatch == 2

\* ------------------------------------------------------------ test images
\* Image 0 is blank (the pipeline finds nothing in it); image i has i raw regions.
Images == {0, 1, 2}
\* Values of min_box_size and box_score_thresh the caller may pass
\* (scores are in tenths; the raw regions below have sides and scores in 1..3).
MinBoxSizes == {1, 2}
ScoreThreshs == {1, 2}

None == "None"

\* ------------------------------------------------------- python values
\* A value passed as img_list: kind is its python type.  A str / Path /
\* Image / ndarray denotes image `img`; a list / tuple carries `elems`.
Kinds == <<"str", "Image", "ndarray", "Path">>
KindOf(i) == Kinds[(i % 4) + 1]
Item(i) == [kind |-> KindOf(i), img |-> i, elems |-> <<>>]
\* A value of an unsupported type (an int).
BadItem == [kind |-> "int", img |-> -1, elems |-> <<>>]
Items == {Item(i) : i \in Images} \cup {BadItem}
PyList(k, es) == [kind |-> k, img |-> -1, elems |-> es]

SeqsUpTo(S, n) == UNION {[1..m -> S] : m \in 0..n}

ListArgs == {PyList(k, es) : k \in {"list", "tuple"}, es \in SeqsUpTo(Items, MaxImgs)}
Args == Items \cup ListArgs

\* resized_shape and preserve_aspect_ratio defaults of detect
DefaultResizedShape == <<768, 768>>
CallParams ==
    [resized_shape : {DefaultResizedShape},
     preserve_aspect_ratio : BOOLEAN,
     min_box_size : MinBoxSizes,
     box_score_thresh : ScoreThreshs,
     batch_size : 1..MaxBatch]

\* ------------------------------------------------- constructor inputs
ModelNames == {"db_shufflenet_v2_small", "ch_PP-OCRv3_det"}
Backends == {"pytorch", "onnx"}
CNSTD_SPACE == "__cnstd__"
PP_SPACE == "__paddle__"

\* AVAILABLE_MODELS.get_space: the space of a (model name, backend) pair;
\* a pair that is registered nowhere resolves to no space.
get_space(model_name, model_backend) ==
    IF model_name = "db_shufflenet_v2_small" THEN CNSTD_SPACE
    ELSE IF model_name = "ch_PP-OCRv3_det" /\ model_backend = "onnx" THEN PP_SPACE
    ELSE None

\* Variant: a space that is neither known space falls through to Detector.
det_cls_of_default(sp) ==
    IF sp = PP_SPACE THEN "PPDetector" ELSE "Detector"

\* if / elif / else of __init__: the detector class of a space.
det_cls_of(sp) ==
    IF sp = CNSTD_SPACE THEN "Detector"
    ELSE IF sp = PP_SPACE THEN "PPDetector"
    ELSE None

NoDetector ==
    [cls |-> None, model_name |-> None, model_backend |-> None,
     auto_rotate_whole_image |-> FALSE]

\* ------------------------------------------------- detection pipeline
\* The raw regions the backend finds in image i, in discovery order.
RawRegion(i, k) ==
    [box |-> [x |-> k, w |-> 1 + (k % 3), h |-> 1 + ((i + k) % 3)],
     score |-> 1 + ((i + 2 * k) % 3),
     cropped_img |-> [img |-> i, region |-> k, flipped |-> ((i + k) % 2 = 1)]]
RawRegions(i) == [k \in 1..i |-> RawRegion(i, k)]

\* BoxDecoder step 4: the size and score filter.
KeepRegion(r, p) ==
    /\ r.box.w >= p.min_box_size
    /\ r.box.h >= p.min_box_size
    /\ r.score >= p.box_score_thresh

SkewAngle(i) == (i % 3) * 90

\* One DetectionResult of the pipeline.
DecodeImage(det, it, p) ==
    [rotated_angle |-> IF det.auto_rotate_whole_image THEN SkewAngle(it.img) ELSE 0,
     detected_texts |-> SelectSeq(RawRegions(it.img), LAMBDA r : KeepRegion(r, p))]

Loadable(it) == it.kind \in {"str", "Path", "Image", "ndarray"}

\* Orientation rectifier: a pure batched transform, same length, same order.
Upright(c) == [c EXCEPT !.flipped = FALSE]
AngleClassifier(crops) == [k \in 1..Len(crops) |-> Upright(crops[k])]


\* ------------------------------------------------------- CnStd.detect
\* isinstance(img_list, (list, tuple))
IsSequenceArg(v) == v.kind \in {"list", "tuple"}

\* Variant: an int is taken for a single image as well.
IsSingleImage_lax(v) == v.kind \in {"str", "Path", "Image", "ndarray", "int"}

\* isinstance(img_list, (str, Path, Image.Image, np.ndarray))
IsSingleImage(v) == v.kind \in {"str", "Path", "Image", "ndarray"}

\* Variant: min_box_size and batch_size change places.
ForwardParams_swapped(p) ==
    [resized_shape |-> p.resized_shape,
     preserve_aspect_ratio |-> p.preserve_aspect_ratio,
     min_box_size |-> p.batch_size,
     box_score_thresh |-> p.box_score_thresh,
     batch_size |-> p.min_box_size]

\* The keyword arguments handed to det_model.detect.
ForwardParams(p) ==
    [resized_shape |-> p.resized_shape,
     preserve_aspect_ratio |-> p.preserve_aspect_ratio,
     min_box_size |-> p.min_box_size,
     box_score_thresh |-> p.box_score_thresh,
     batch_size |-> p.batch_size]

\* Variant: the exception is caught and the call goes on with what there is.
PropagateError_swallowed(e) == [pc |-> "post", error |-> None]

\* An exception of det_model.detect is not caught: it ends the detect call.
PropagateError(e) == [pc |-> "raised", error |-> e]

\* Variant: the crops are rectified whatever use_angle_clf says.
RectifyEnabled_always(use) == TRUE

\* if self.use_angle_clf
RectifyEnabled(use) == use

\* Variant: the last crop of the image is left out.
crop_img_list_short(o) ==
    [k \in 1..(Len(o.detected_texts) - 1) |-> o.detected_texts[k].cropped_img]

\* crop_img_list = [info['cropped_img'] for info in out['detected_texts']]
crop_img_list(o) ==
    [k \in 1..Len(o.detected_texts) |-> o.detected_texts[k].cropped_img]

Min(a, b) == IF a <= b THEN a ELSE b

\* Variant: the crops are written back last to first.
zip_write_reversed(texts, crops) ==
    [k \in 1..Len(texts) |->
        IF k <= Min(Len(texts), Len(crops))
        THEN [texts[k] EXCEPT !.cropped_img = crops[Min(Len(texts), Len(crops)) - k + 1]]
        ELSE texts[k]]

\* for info, crop_img in zip(out['detected_texts'], crop_img_list):
\*     info['cropped_img'] = crop_img
zip_write(texts, crops) ==
    [k \in 1..Len(texts) |->
        IF k <= Min(Len(texts), Len(crops))
        THEN [texts[k] EXCEPT !.cropped_img = crops[k]]
        ELSE texts[k]]

\* Variant: the result of a single image is not unwrapped.
ReturnValue_wrapped(sgl, os) == [kind |-> "list", val |-> os]

\* Variant: a list of results is returned last to first.
ReturnValue_reversed(sgl, os) ==
    IF sgl
    THEN IF Len(os) = 0
         THEN [kind |-> "IndexError", val |-> <<>>]
         ELSE [kind |-> "dict", val |-> <<os[1]>>]
    ELSE [kind |-> "list", val |-> [k \in 1..Len(os) |-> os[Len(os) - k + 1]]]

\* Variant: results without detected texts are left out.
ReturnValue_nonempty(sgl, os) ==
    LET kept == SelectSeq(os, LAMBDA o : o.detected_texts # <<>>)
    IN  IF sgl
        THEN IF Len(kept) = 0
             THEN [kind |-> "IndexError", val |-> <<>>]
             ELSE [kind |-> "dict", val |-> <<kept[1]>>]
        ELSE [kind |-> "list", val |-> kept]

\* return outs[0] if single else outs
ReturnValue(sgl, os) ==
    IF sgl
    THEN IF Len(os) = 0
         THEN [kind |-> "IndexError", val |-> <<>>]
         ELSE [kind |-> "dict", val |-> <<os[1]>>]
    ELSE [kind |-> "list", val |-> os]

NoResult == [kind |-> None, val |-> <<>>]
NoPrev == [set |-> FALSE, arg |-> BadItem, params |-> None, result |-> NoResult]
NoRet == [set |-> FALSE, val |-> <<>>]

\* ---------------------------------------------------------------- state
VARIABLES
    pc,             \* "new", "ctor_raised", "ready", "det_model", "post", "done", "raised"
    space,          \* self.space
    det_model,      \* self.det_model
    use_angle_clf,  \* self.use_angle_clf
    angle_clf,      \* self.angle_clf
    arg,            \* the img_list argument of the running detect call
    params,         \* its keyword arguments
    single,         \* local single
    img_list,       \* local img_list after normalisation
    det_kwargs,     \* what det_model.detect received
    idx,            \* det_model.detect: batches done
    out,            \* det_model.detect: results so far
    outs,           \* local outs
    j,              \* position of `for out in outs`
    result,         \* the value detect returned
    error,          \* the exception that ended the constructor or the call
    detCalls,       \* history: calls of det_model.detect in this detect call
    clfCalls,       \* history: calls of self.angle_clf in this detect call
    pipeRet,        \* history: what det_model.detect returned
    failed,         \* history: the exception det_model.detect ended with
    prev            \* history: the previous call, kept when the call repeats its images

vars == <<pc, space, det_model, use_angle_clf, angle_clf, arg, params, single,
          img_list, det_kwargs, idx, out, outs, j, result, error, detCalls,
          clfCalls, pipeRet, failed, prev>>

self_vars == <<space, det_model, use_angle_clf, angle_clf>>

Init ==
    /\ pc = "new"
    /\ space = None
    /\ det_model = NoDetector
    /\ use_angle_clf = FALSE
    /\ angle_clf = None
    /\ arg = BadItem
    /\ params = None
    /\ single = FALSE
    /\ img_list = <<>>
    /\ det_kwargs = None
    /\ idx = 0
    /\ out = <<>>
    /\ outs = <<>>
    /\ j = 1
    /\ result = NoResult
    /\ error = None
    /\ detCalls = 0
    /\ clfCalls = <<>>
    /\ pipeRet = NoRet
    /\ failed = None
    /\ prev = NoPrev

\* CnStd.__init__
CnStd_init ==
    /\ pc = "new"
    /\ \E model_name \in ModelNames, model_backend \in Backends,
          auto_rotate \in BOOLEAN, use_clf \in BOOLEAN :
        LET sp == get_space(model_name, model_backend)
            cls == det_cls_of(sp)
        IN  /\ space' = sp
            /\ IF cls = None
               THEN /\ pc' = "ctor_raised"
                    /\ error' = "NotImplementedError"
                    /\ UNCHANGED <<det_model, use_angle_clf, angle_clf>>
               ELSE /\ det_model' = [cls |-> cls, model_name |-> model_name,
                                     model_backend |-> model_backend,
                                     auto_rotate_whole_image |-> auto_rotate]
                    /\ use_angle_clf' = use_clf
                    /\ angle_clf' = IF use_clf THEN "AngleClassifier" ELSE None
                    /\ pc' = "ready"
                    /\ UNCHANGED error
    /\ UNCHANGED <<arg, params, single, img_list, det_kwargs, idx, out, outs, j,
                   result, detCalls, clfCalls, pipeRet, failed, prev>>

\* CnStd.detect up to the call of det_model.detect, for argument a, keyword
\* arguments p and history record h.
detect_begin(a, p, h) ==
    /\ arg' = a
    /\ params' = p
    /\ prev' = h
    /\ result' = NoResult
    /\ clfCalls' = <<>>
    /\ pipeRet' = NoRet
    /\ failed' = None
    /\ idx' = 0
    /\ out' = <<>>
    /\ outs' = <<>>
    /\ j' = 1
    /\ IF IsSequenceArg(a)
       THEN /\ img_list' = a.elems
            /\ single' = FALSE
            /\ pc' = "det_model"
       ELSE IF IsSingleImage(a)
       THEN /\ img_list' = <<a>>
            /\ single' = TRUE
            /\ pc' = "det_model"
       ELSE /\ img_list' = <<>>
            /\ single' = FALSE
            /\ pc' = "raised"
    /\ error' = IF pc' = "raised" THEN "TypeError" ELSE None
    /\ detCalls' = IF pc' = "raised" THEN 0 ELSE 1
    /\ det_kwargs' = IF pc' = "raised" THEN None ELSE ForwardParams(p)
    /\ UNCHANGED self_vars

\* A detect call on the constructed facade.
detect ==
    /\ pc = "ready"
    /\ \E a \in Args, p \in CallParams : detect_begin(a, p, NoPrev)

ThisCall == [set |-> TRUE, arg |-> arg, params |-> params, result |-> result]

\* The same images passed in another shape: x, [x], (x,)
Reshapes(a) ==
    IF IsSequenceArg(a)
    THEN {PyList(k, a.elems) : k \in {"list", "tuple"} \ {a.kind}}
         \cup (IF Len(a.elems) = 1 THEN {a.elems[1]} ELSE {})
    ELSE {PyList(k, <<a>>) : k \in {"list", "tuple"}}

\* detect called again after a call that returned, with the same images in
\* another shape and the same keyword arguments.
detect_reshaped ==
    /\ pc = "done"
    /\ \E a \in Reshapes(arg) : detect_begin(a, params, ThisCall)

\* detect called again after a call that returned, with the same argument
\* and another batch_size.
detect_rebatched ==
    /\ pc = "done"
    /\ \E b \in (1..MaxBatch) \ {params.batch_size} :
           detect_begin(arg, [params EXCEPT !.batch_size = b], ThisCall)

\* The end of det_model.detect by exception e.
det_model_raise(e) ==
    LET r == PropagateError(e)
    IN  /\ pc' = r.pc
        /\ error' = r.error
        /\ failed' = e
        /\ IF r.pc = "raised"
           THEN UNCHANGED <<outs, pipeRet>>
           ELSE /\ outs' = out
                /\ pipeRet' = NoRet
        /\ UNCHANGED <<arg, params, single, img_list, det_kwargs, idx, out, j,
                       result, detCalls, clfCalls, prev>>
        /\ UNCHANGED self_vars

\* det_model.detect: one batch of at most batch_size images through the backend.
det_model_detect_batch ==
    /\ pc = "det_model"
    /\ idx * det_kwargs.batch_size < Len(img_list)
    /\ LET lo == idx * det_kwargs.batch_size + 1
           hi == Min((idx + 1) * det_kwargs.batch_size, Len(img_list))
           imgs == SubSeq(img_list, lo, hi)
       IN  IF \E k \in 1..Len(imgs) : ~Loadable(imgs[k])
           THEN det_model_raise("InvalidInput")
           ELSE \/ det_model_raise("BackendError")
                \/ /\ out' = out \o [k \in 1..Len(imgs) |->
                                        DecodeImage(det_model, imgs[k], det_kwargs)]
                   /\ idx' = idx + 1
                   /\ UNCHANGED <<pc, arg, params, single, img_list, det_kwargs,
                                  outs, j, result, error, detCalls, clfCalls,
                                  pipeRet, failed, prev>>
                   /\ UNCHANGED self_vars

\* det_model.detect returns; outs = self.det_model.detect(...)
det_model_detect_return ==
    /\ pc = "det_model"
    /\ idx * det_kwargs.batch_size >= Len(img_list)
    /\ outs' = out
    /\ pipeRet' = [set |-> TRUE, val |-> out]
    /\ pc' = "post"
    /\ UNCHANGED <<arg, params, single, img_list, det_kwargs, idx, out, j,
                   result, error, detCalls, clfCalls, failed, prev>>
    /\ UNCHANGED self_vars

\* One pass of `for out in outs` under `if self.use_angle_clf`.
detect_angle_clf ==
    /\ pc = "post"
    /\ RectifyEnabled(use_angle_clf)
    /\ j <= Len(outs)
    /\ LET crops == crop_img_list(outs[j])
           rect == AngleClassifier(crops)
       IN  /\ clfCalls' = Append(clfCalls, [input |-> crops, output |-> rect])
           /\ outs' = [outs EXCEPT ![j].detected_texts = zip_write(@, rect)]
    /\ j' = j + 1
    /\ UNCHANGED <<pc, arg, params, single, img_list, det_kwargs, idx, out,
                   result, error, detCalls, pipeRet, failed, prev>>
    /\ UNCHANGED self_vars

\* return outs[0] if single else outs
detect_return ==
    /\ pc = "post"
    /\ ~RectifyEnabled(use_angle_clf) \/ j > Len(outs)
    /\ LET rv == ReturnValue(single, outs)
       IN  IF rv.kind = "IndexError"
           THEN /\ pc' = "raised"
                /\ error' = "IndexError"
                /\ UNCHANGED result
           ELSE /\ pc' = "done"
                /\ result' = rv
                /\ UNCHANGED error
    /\ UNCHANGED <<arg, params, single, img_list, det_kwargs, idx, out, outs, j,
                   detCalls, clfCalls, pipeRet, failed, prev>>
    /\ UNCHANGED self_vars

\* The call is over: its locals and what it returned or raised are gone, the
\* facade is ready for the next call.
detect_exit ==
    /\ pc \in {"done", "raised"}
    /\ pc' = "ready"
    /\ arg' = BadItem
    /\ params' = None
    /\ single' = FALSE
    /\ img_list' = <<>>
    /\ det_kwargs' = None
    /\ idx' = 0
    /\ out' = <<>>
    /\ outs' = <<>>
    /\ j' = 1
    /\ result' = NoResult
    /\ error' = None
    /\ detCalls' = 0
    /\ clfCalls' = <<>>
    /\ pipeRet' = NoRet
    /\ failed' = None
    /\ prev' = NoPrev
    /\ UNCHANGED self_vars

Next ==
    \/ CnStd_init
    \/ detect
    \/ detect_reshaped
    \/ detect_rebatched
    \/ det_model_detect_batch
    \/ det_model_detect_return
    \/ detect_angle_clf
    \/ detect_return
    \/ detect_exit

Spec == Init /\ [][Next]_vars

\* ================================================================ claims
\* A detect call is running or has just ended.
InCall == pc \in {"det_model", "post", "done", "raised"}

\* The python types detect documents for one image.
ImageKinds == {"str", "Path", "Image", "ndarray"}
SequenceKinds == {"list", "tuple"}

\* The previous call and this one differ at most in batch_size.
SameButBatch(p, q) == [p EXCEPT !.batch_size = 0] = [q EXCEPT !.batch_size = 0]

\* C1: detect(x) and detect([x])[0] are the same DetectionResult, whichever of
\* the two calls comes first, for the same keyword arguments and the same facade.
C1_SingleListSymmetry ==
    (pc = "done" /\ prev.set /\ prev.params = params) =>
        /\ (prev.arg.kind \in ImageKinds /\ arg.kind \in SequenceKinds
                /\ arg.elems = <<prev.arg>>) =>
               /\ prev.result.kind = "dict"
               /\ result.kind = "list"
               /\ Len(result.val) = 1
               /\ result.val[1] = prev.result.val[1]
        /\ (arg.kind \in ImageKinds /\ prev.arg.kind \in SequenceKinds
                /\ prev.arg.elems = <<arg>>) =>
               /\ result.kind = "dict"
               /\ prev.result.kind = "list"
               /\ Len(prev.result.val) = 1
               /\ prev.result.val[1] = result.val[1]

\* detect([x]) has returned after detect(x), rectification on, x with a box.
C1_Witness ==
    /\ pc = "done" /\ prev.set /\ prev.params = params
    /\ prev.arg.kind \in ImageKinds
    /\ arg.kind = "list" /\ arg.elems = <<prev.arg>>
    /\ use_angle_clf
    /\ result.val[1].detected_texts # <<>>

RECURSIVE FlatCrops(_)
\* The crops of all images of a pipeline result, as one flat sequence.
FlatCrops(os) ==
    IF os = <<>> THEN <<>>
    ELSE [k \in 1..Len(os[1].detected_texts) |-> os[1].detected_texts[k].cropped_img]
             \o FlatCrops(Tail(os))

\* C2 as stated: with rectification on, a detect call that yields N >= 1 boxes
\* invokes the rectifier exactly once, after the pipeline returned, on the N
\* crops of all images.
C2_RectifierCalledOnce ==
    (pc = "done" /\ use_angle_clf /\ FlatCrops(pipeRet.val) # <<>>) =>
        /\ pipeRet.set
        /\ Len(clfCalls) = 1
        /\ clfCalls[1].input = FlatCrops(pipeRet.val)

\* C2 amended: with rectification on, the rectifier is invoked once per image,
\* in image order and only after the pipeline returned; invocation i receives
\* exactly the crops of image i in box order, so all invocations of a call
\* together receive the N crops once each.
C2_RectifierCalledPerImage ==
    /\ clfCalls # <<>> => (pipeRet.set /\ pc \in {"post", "done"})
    /\ (pc = "post" /\ use_angle_clf) => Len(clfCalls) = j - 1
    /\ (pc = "done" /\ use_angle_clf) => Len(clfCalls) = Len(pipeRet.val)
    /\ \A i \in 1..Len(clfCalls) :
           /\ i <= Len(pipeRet.val)
           /\ Len(clfCalls[i].input) = Len(pipeRet.val[i].detected_texts)
           /\ \A k \in 1..Len(clfCalls[i].input) :
                  clfCalls[i].input[k] = pipeRet.val[i].detected_texts[k].cropped_img

\* A call on two images with boxes has returned: the rectifier ran twice.
C2_Witness ==
    /\ pc = "done" /\ use_angle_clf
    /\ Len(clfCalls) = 2
    /\ clfCalls[1].input # <<>>
    /\ clfCalls[2].input # <<>>

\* C3: with rectification on, the crop of box k of image i in the result is
\* what the rectifier returned at position k for image i, whose input at that
\* position was the pipeline's crop of that box; images and boxes keep their
\* number and order.
C3_WriteBackRoundTrip ==
    (pc = "done" /\ use_angle_clf) =>
        /\ Len(result.val) = Len(pipeRet.val)
        /\ Len(clfCalls) = Len(pipeRet.val)
        /\ \A i \in 1..Len(pipeRet.val) :
               /\ Len(result.val[i].detected_texts) = Len(pipeRet.val[i].detected_texts)
               /\ Len(clfCalls[i].output) = Len(pipeRet.val[i].detected_texts)
               /\ \A k \in 1..Len(pipeRet.val[i].detected_texts) :
                      /\ clfCalls[i].input[k] = pipeRet.val[i].detected_texts[k].cropped_img
                      /\ result.val[i].detected_texts[k].cropped_img = clfCalls[i].output[k]
                      /\ result.val[i].detected_texts[k].box = pipeRet.val[i].detected_texts[k].box

\* Two images returned, the second with two boxes, and a crop was turned.
C3_Witness ==
    /\ pc = "done" /\ use_angle_clf
    /\ Len(result.val) = 2
    /\ result.val[1].detected_texts # <<>>
    /\ Len(result.val[2].detected_texts) = 2
    /\ result.val[2] # pipeRet.val[2]

\* C4: a list of n images gives n results, result i holding only regions of
\* image i, and the same call with another batch_size returns the same value.
C4_BatchOrderPreserved ==
    pc = "done" =>
        /\ arg.kind \in SequenceKinds =>
               /\ result.kind = "list"
               /\ Len(result.val) = Len(arg.elems)
               /\ \A i \in 1..Len(result.val) :
                      \A k \in 1..Len(result.val[i].detected_texts) :
                          result.val[i].detected_texts[k].cropped_img.img = arg.elems[i].img
        /\ (prev.set /\ prev.arg = arg /\ SameButBatch(prev.params, params)) =>
               result = prev.result

\* The same two-image list has returned under two batch sizes, with boxes found.
C4_Witness ==
    /\ pc = "done" /\ prev.set /\ prev.arg = arg
    /\ prev.params.batch_size # params.batch_size
    /\ arg.kind = "list" /\ Len(arg.elems) = 2
    /\ arg.elems[1] # arg.elems[2]
    /\ result.val[1].detected_texts # <<>>
    /\ result.val[2].detected_texts # <<>>

\* An argument detect documents: one image, or a list or tuple of images.
Accepted(v) ==
    \/ v.kind \in ImageKinds
    \/ /\ v.kind \in SequenceKinds
       /\ \A k \in 1..Len(v.elems) : v.elems[k].kind \in ImageKinds

\* C5 as stated: every argument that is not an image or a list of images ends
\* the call with TypeError, without a call of the pipeline or the rectifier.
C5_UnsupportedRejected ==
    (InCall /\ ~Accepted(arg)) =>
        /\ pc = "raised"
        /\ error = "TypeError"
        /\ detCalls = 0
        /\ clfCalls = <<>>
        /\ result = NoResult

\* C5 amended: an argument that is neither a list or tuple nor an image ends
\* the call with TypeError, without a call of the pipeline or the rectifier
\* and without a result (the elements of a list are not looked at).
C5_UnsupportedTopLevelRejected ==
    (InCall /\ arg.kind \notin ImageKinds \cup SequenceKinds) =>
        /\ pc = "raised"
        /\ error = "TypeError"
        /\ detCalls = 0
        /\ clfCalls = <<>>
        /\ pipeRet = NoRet
        /\ result = NoResult

\* detect(42) has raised.
C5_Witness ==
    /\ pc = "raised" /\ error = "TypeError"
    /\ arg.kind = "int"

\* C6: a (model name, backend) pair of no known space ends the constructor
\* with NotImplementedError before a detector or an angle classifier exists,
\* and the object never serves a detect call.
C6_UnknownSpaceFails ==
    (pc # "new" /\ space \notin {CNSTD_SPACE, PP_SPACE}) =>
        /\ pc = "ctor_raised"
        /\ error = "NotImplementedError"
        /\ det_model = NoDetector
        /\ angle_clf = None
        /\ detCalls = 0

\* The constructor has raised for ('ch_PP-OCRv3_det', 'pytorch').
C6_Witness ==
    /\ pc = "ctor_raised"
    /\ space = None

\* C7: an image in which the pipeline finds no region has detected_texts = []
\* in the returned result, and a call whose pipeline returned does not raise.
C7_EmptyDetection ==
    /\ pc = "done" =>
           \A i \in 1..Len(pipeRet.val) :
               pipeRet.val[i].detected_texts = <<>> =>
                   /\ i <= Len(result.val)
                   /\ Len(result.val) = Len(img_list)
                   /\ result.val[i].detected_texts = <<>>
    /\ pipeRet.set => pc # "raised"

\* A blank image and an image with boxes have returned, rectification on.
C7_Witness ==
    /\ pc = "done" /\ use_angle_clf
    /\ Len(img_list) = 2
    /\ img_list[1].img = 0
    /\ result.val[1].detected_texts = <<>>
    /\ result.val[2].detected_texts # <<>>
    /\ clfCalls[1].input = <<>>

\* C8: every returned region is at least min_box_size wide and high and
\* scores at least box_score_thresh, for the values passed to this call,
\* which the pipeline received unchanged.
C8_SizeScoreFilter ==
    /\ pc = "done" =>
           \A i \in 1..Len(result.val) :
               \A k \in 1..Len(result.val[i].detected_texts) :
                   LET t == result.val[i].detected_texts[k]
                   IN  /\ t.box.w >= params.min_box_size
                       /\ t.box.h >= params.min_box_size
                       /\ t.score >= params.box_score_thresh
    /\ detCalls = 1 =>
           /\ det_kwargs.min_box_size = params.min_box_size
           /\ det_kwargs.box_score_thresh = params.box_score_thresh

\* A call has returned an image of which one region passed and one did not.
C8_Witness ==
    /\ pc = "done"
    /\ params.min_box_size = 2
    /\ \E i \in 1..Len(result.val) :
           /\ img_list[i].img = 2
           /\ Len(result.val[i].detected_texts) = 1

\* C9: when det_model.detect ends with a backend failure, that failure ends
\* the detect call: no second call of the pipeline, no call of the rectifier,
\* no result.
C9_BackendFailurePropagates ==
    failed = "BackendError" =>
        /\ pc = "raised"
        /\ error = "BackendError"
        /\ detCalls = 1
        /\ clfCalls = <<>>
        /\ result = NoResult

\* The second batch failed after the first had given a result.
C9_Witness ==
    /\ failed = "BackendError"
    /\ use_angle_clf
    /\ idx = 1
    /\ out # <<>>

\* C10: what detect returns differs from what the pipeline returned in the
\* cropped images only, and not at all when rectification is off, in which
\* case the rectifier is never invoked.
C10_RectificationFrame ==
    /\ ~use_angle_clf => clfCalls = <<>>
    /\ pc = "done" =>
           /\ Len(result.val) = Len(pipeRet.val)
           /\ \A i \in 1..Len(pipeRet.val) :
                  /\ result.val[i].rotated_angle = pipeRet.val[i].rotated_angle
                  /\ Len(result.val[i].detected_texts) = Len(pipeRet.val[i].detected_texts)
                  /\ \A k \in 1..Len(pipeRet.val[i].detected_texts) :
                         /\ result.val[i].detected_texts[k].box
                                = pipeRet.val[i].detected_texts[k].box
                         /\ result.val[i].detected_texts[k].score
                                = pipeRet.val[i].detected_texts[k].score
           /\ ~use_angle_clf => result.val = pipeRet.val

\* A rotated image has returned with a crop the rectifier turned.
C10_Witness ==
    /\ pc = "done" /\ use_angle_clf
    /\ \E i \in 1..Len(result.val) :
           /\ result.val[i].rotated_angle # 0
           /\ result.val[i] # pipeRet.val[i]

====
